---- MODULE Spec2Model ----
(***************************************************************************)
(* Model of spec2nii/dicomfunctions.py: conversion of Siemens DICOM        *)
(* spectroscopy files (svs_or_CSI, process_siemens_svs,                    *)
(* process_siemens_csi, extractDicomMetadata, multi_file_dicom).           *)
(*                                                                         *)
(* Conventions                                                             *)
(*  - a Python call that may raise is an operator returning either         *)
(*    Ok(v) or Raise(e);                                                   *)
(*  - a numpy array is a record [shape, flat], flat being the elements in  *)
(*    C (row-major) order; indices into flat are 1-based, numpy indices    *)
(*    0-based;                                                             *)
(*  - float samples are integers, a complex sample is [re, im];            *)
(*  - x * 1E-9 and friends are kept exact as [mant, exp] (mant * 10^exp).  *)
(***************************************************************************)
EXTENDS Integers, Sequences, FiniteSets, TLC

VARIABLES
    files_in,          \* multi_file_dicom argument: list of paths
    fs,                \* what wrapper_from_file finds under each path
    fname_out,         \* multi_file_dicom argument: output name ("" = falsy)
    tag,               \* multi_file_dicom argument: dimension tag ("" = falsy)
    idx,               \* number of completed loop iterations (line 34)
    pc,                \* position inside multi_file_dicom
    data_list,         \* line 29
    orientation_list,  \* line 30
    dwelltime_list,    \* line 31
    meta_list,         \* line 32
    mainStr,           \* line 33
    combine,           \* line 68
    nifti_mrs_out,     \* line 72
    fnames_out,        \* line 72
    clock,             \* datetime.now() as a tick counter
    img,               \* argument of a single call of one of the functions
    called,            \* which function was applied to img
    ret                \* what that call returned or raised

vars == <<files_in, fs, fname_out, tag, idx, pc, data_list, orientation_list,
          dwelltime_list, meta_list, mainStr, combine, nifti_mrs_out,
          fnames_out, clock, img, called, ret>>

(***************************************************************************)
(* Bounds of the model                                                     *)
(***************************************************************************)
MaxFiles == 3
MaxDim == 2
MaxBufLen == 6

(***************************************************************************)
(* Python / numpy helpers                                                  *)
(***************************************************************************)
Ok(v) == [ok |-> TRUE, val |-> v]

Raise(e) == [ok |-> FALSE, err |-> e]

\* bool(s) of a str-or-None argument
Truthy(s) == s # ""

\* x * 10^e kept exact
Scale(x, e) == [mant |-> x, exp |-> e]

RECURSIVE SeqProd(_)
SeqProd(s) == IF s = <<>> THEN 1 ELSE Head(s) * SeqProd(Tail(s))

\* np.prod of a list of Python ints (int64; the counts modelled stay far
\* below 2^63, where it is the plain product)
NpProd(s) == SeqProd(s)

\* number of elements after axis k (C-order stride of axis k)
Stride(shape, k) == SeqProd(SubSeq(shape, k + 1, Len(shape)))

\* flat 0-based position of the 0-based index tuple i in an array of that shape
Ravel(i, shape) ==
    LET RECURSIVE Sum(_)
        Sum(k) == IF k = 0 THEN 0 ELSE i[k] * Stride(shape, k) + Sum(k - 1)
    IN  Sum(Len(shape))

\* the 0-based index tuple at flat 0-based position q
Unravel(q, shape) ==
    [k \in 1..Len(shape) |-> (q \div Stride(shape, k)) % shape[k]]

\* a[i] for a numpy array a and a 0-based index tuple i
At(a, i) == a.flat[Ravel(i, a.shape) + 1]

\* 1-D array from a sequence
Array1(s) == [shape |-> <<Len(s)>>, flat |-> s]

\* np.frombuffer(value, dtype=np.single): the element's floats, in order
frombuffer(value) == value

\* specData[0::2]
EvenSlice(specData) ==
    [k \in 1..((Len(specData) + 1) \div 2) |-> specData[2 * k - 1]]

\* specData[1::2]
OddSlice(specData) ==
    [k \in 1..(Len(specData) \div 2) |-> specData[2 * k]]

\* slip: specData[0::2] + 1j * specData[1::2], the sign of the imaginary
\* part not flipped
specDataCmplxPlus(specData) ==
    LET a == EvenSlice(specData)
        b == OddSlice(specData)
    IN  IF Len(a) = Len(b)
        THEN Ok(Array1([k \in 1..Len(a) |-> [re |-> a[k], im |-> b[k]]]))
        ELSE IF Len(a) = 1
        THEN Ok(Array1([k \in 1..Len(b) |-> [re |-> a[1], im |-> b[k]]]))
        ELSE IF Len(b) = 1
        THEN Ok(Array1([k \in 1..Len(a) |-> [re |-> a[k], im |-> b[1]]]))
        ELSE Raise("ValueError")

\* specData[0::2] - 1j * specData[1::2], with numpy's broadcasting of two
\* 1-D operands: equal lengths pair up, a length-1 operand is stretched,
\* anything else raises ValueError
specDataCmplx(specData) ==
    LET a == EvenSlice(specData)
        b == OddSlice(specData)
    IN  IF Len(a) = Len(b)
        THEN Ok(Array1([k \in 1..Len(a) |-> [re |-> a[k], im |-> 0 - b[k]]]))
        ELSE IF Len(a) = 1
        THEN Ok(Array1([k \in 1..Len(b) |-> [re |-> a[1], im |-> 0 - b[k]]]))
        ELSE IF Len(b) = 1
        THEN Ok(Array1([k \in 1..Len(a) |-> [re |-> a[k], im |-> 0 - b[1]]]))
        ELSE Raise("ValueError")

\* a.reshape(newshape) for non-negative dimensions
reshape(a, newshape) ==
    IF SeqProd(newshape) = Len(a.flat)
    THEN Ok([shape |-> newshape, flat |-> a.flat])
    ELSE Raise("ValueError")

\* slip: np.moveaxis(a, 2, 0), which moves one axis only
MoveOrderOneAxis == <<3, 1, 2, 4>>

\* the axis order np.moveaxis(a, (0, 1, 2), (2, 1, 0)) gives a 4-D array:
\* result axis k is source axis MoveOrder[k] (1-based)
MoveOrder == <<3, 2, 1, 4>>

\* np.moveaxis(a, (0, 1, 2), (2, 1, 0))
moveaxis(a) ==
    LET outshape == [k \in 1..Len(a.shape) |-> a.shape[MoveOrder[k]]]
        Src(i) == [k \in 1..Len(a.shape) |->
                     i[CHOOSE j \in 1..Len(a.shape) : MoveOrder[j] = k]]
    IN  [shape |-> outshape,
         flat  |-> [q \in 1..Len(a.flat) |->
                      At(a, Src(Unravel(q - 1, outshape)))]]

\* slip: the arrays stacked last file first
stackReversed(arrs) ==
    LET n == Len(arrs)
    IN  [shape |-> arrs[1].shape \o <<n>>,
         flat  |-> [q \in 1..(n * Len(arrs[1].flat)) |->
                      arrs[n - ((q - 1) % n)].flat[((q - 1) \div n) + 1]]]

\* np.stack(arrs, axis=-1) of arrays of one shape
stack(arrs) ==
    LET n == Len(arrs)
    IN  [shape |-> arrs[1].shape \o <<n>>,
         flat  |-> [q \in 1..(n * Len(arrs[1].flat)) |->
                      arrs[((q - 1) % n) + 1].flat[((q - 1) \div n) + 1]]]

(***************************************************************************)
(* The nibabel DICOM wrapper as the functions read it:                     *)
(*   img.tags    csa_header['tags']: tag name -> its 'items' list          *)
(*               ('n_items' is the length of that list)                    *)
(*   img.dcm     the flat dcm_data attributes                              *)
(*   img.value   the floats of element (7fe1, 1010)                        *)
(*   img.readable  whether wrapper_from_file can open the file             *)
(***************************************************************************)
\* what csa_header['tags'][t]['items'][n - 1] raises, "" when it succeeds
\* (n = 0: only the tag is looked up)
ErrOf(tags, t, n) ==
    IF t \notin DOMAIN tags THEN "KeyError"
    ELSE IF Len(tags[t]) < n THEN "IndexError"
    ELSE ""

\* the first failure among the lookups reqs = << <<tag, n>>, ... >>, in order
FirstErr(tags, reqs) ==
    LET bad == {k \in 1..Len(reqs) : ErrOf(tags, reqs[k][1], reqs[k][2]) # ""}
        first == CHOOSE k \in bad : \A j \in bad : k <= j
    IN  IF bad = {} THEN "" ELSE ErrOf(tags, reqs[first][1], reqs[first][2])

\* slip: the frame count left out of the product
svs_or_CSI_RowsCols(image) ==
    LET e == FirstErr(image.tags, << <<"Rows", 1>>, <<"Columns", 1>>,
                                     <<"NumberOfFrames", 1>> >>)
        rows == image.tags["Rows"][1]
        cols == image.tags["Columns"][1]
    IN  IF e # "" THEN Raise(e)
        ELSE IF NpProd(<<rows, cols>>) > 1 THEN Ok("CSI")
        ELSE Ok("SVS")

\* svs_or_CSI(img)
svs_or_CSI(image) ==
    LET e == FirstErr(image.tags, << <<"Rows", 1>>, <<"Columns", 1>>,
                                     <<"NumberOfFrames", 1>> >>)
        rows == image.tags["Rows"][1]
        cols == image.tags["Columns"][1]
        slices == image.tags["NumberOfFrames"][1]
    IN  IF e # "" THEN Raise(e)
        ELSE IF NpProd(<<rows, cols, slices>>) > 1 THEN Ok("CSI")
        ELSE Ok("SVS")

(***************************************************************************)
(* spec2nii.dcm2niiOrientation.orientationFuncs.nifti_dicom2mat and        *)
(* spec2nii.nifti_orientation.NIFTIOrient                                  *)
(***************************************************************************)
Cross(a, b) == << a[2] * b[3] - a[3] * b[2],
                  a[3] * b[1] - a[1] * b[3],
                  a[1] * b[2] - a[2] * b[1] >>

\* orient: the two direction-cosine vectors, pos: the position, xyzMM: the
\* voxel size.  Column j of the 3x3 block is direction j scaled by xyzMM[j],
\* column 4 the position, the last row [0, 0, 0, 1].
nifti_dicom2mat(orient, pos, xyzMM) ==
    LET dir == <<orient[1], orient[2], Cross(orient[1], orient[2])>>
    IN  IF (\E j \in 1..3 : xyzMM[j] <= 0) \/ dir[3] = <<0, 0, 0>>
        THEN Raise("GeometryError")
        ELSE Ok([i \in 1..4 |->
                   IF i = 4 THEN <<0, 0, 0, 1>>
                   ELSE <<dir[1][i] * xyzMM[1], dir[2][i] * xyzMM[2],
                          dir[3][i] * xyzMM[3], pos[i]>>])

\* Q44[:2, :] *= -1
NegateFirstTwoRows(Q44) ==
    [i \in 1..4 |-> IF i <= 2 THEN [j \in 1..4 |-> 0 - Q44[i][j]] ELSE Q44[i]]

\* NIFTIOrient(Q44)
NIFTIOrient(Q44) == [Q44 |-> Q44]

\* the orientation part of process_siemens_svs / process_siemens_csi:
\* posTag names the position tag, sizes = << <<tag, n>>, ... >> the three
\* items the voxel size is read from
Orientation(tags, posTag, sizes) ==
    LET e1 == ErrOf(tags, "ImageOrientationPatient", 0)
        iop == tags["ImageOrientationPatient"]
        e2 == FirstErr(tags, <<<<posTag, 0>>>> \o sizes)
        pos == tags[posTag]
        xyzMM == [j \in 1..3 |-> tags[sizes[j][1]][sizes[j][2]]]
        m == nifti_dicom2mat(<<SubSeq(iop, 1, 3), SubSeq(iop, 4, 6)>>, pos, xyzMM)
    IN  IF e1 # "" THEN Raise(e1)
        ELSE IF Len(iop) # 6 THEN Raise("ValueError")
        ELSE IF e2 # "" THEN Raise(e2)
        ELSE IF Len(pos) < 3 THEN Raise("IndexError")
        ELSE IF ~m.ok THEN m
        ELSE Ok(NIFTIOrient(NegateFirstTwoRows(m.val)))

(***************************************************************************)
(* spec2nii.nifti_mrs.hdr_ext                                              *)
(***************************************************************************)
\* hdr_ext(frequency, nucleus)
hdr_ext(freq, nucleus) ==
    [SpectrometerFrequency |-> freq, ResonantNucleus |-> nucleus,
     standard |-> <<>>, user |-> <<>>, dim_info |-> <<>>]

\* obj.set_standard_def(key, value): standard is the dict key -> value
set_standard_def(obj, key, value) ==
    [obj EXCEPT !.standard =
        [k \in (DOMAIN obj.standard) \cup {key} |->
            IF k = key THEN value ELSE obj.standard[k]]]

\* obj.set_user_def(key=, value=, doc=): user is the list of the triples set
set_user_def(obj, key, value, doc) ==
    [obj EXCEPT !.user = Append(obj.user, [key |-> key, value |-> value, doc |-> doc])]

\* obj.set_dim_info(dim, tag)
set_dim_info(obj, dim, t) ==
    [obj EXCEPT !.dim_info = Append(obj.dim_info, [dim |-> dim, tag |-> t])]

\* a chain of set_standard_def calls, kv = << <<key, value>>, ... >>
RECURSIVE SetAll(_, _)
SetAll(obj, kv) ==
    IF kv = <<>> THEN obj
    ELSE SetAll(set_standard_def(obj, kv[1][1], kv[1][2]), Tail(kv))

(***************************************************************************)
(* extractDicomMetadata                                                    *)
(***************************************************************************)
\* slip: the last item of the primary tag instead of the first
SetReceiveCoilNameLast(obj, tags) ==
    IF Len(tags["ReceivingCoil"]) > 0
    THEN set_user_def(obj, "ReceiveCoilName",
                      tags["ReceivingCoil"][Len(tags["ReceivingCoil"])], "Rx coil name.")
    ELSE set_user_def(obj, "ReceiveCoilName", tags["ImaCoilString"][1], "Rx coil name.")

\* lines 188-195: the ReceiveCoilName user field
SetReceiveCoilName(obj, tags) ==
    IF Len(tags["ReceivingCoil"]) > 0
    THEN set_user_def(obj, "ReceiveCoilName", tags["ReceivingCoil"][1], "Rx coil name.")
    ELSE set_user_def(obj, "ReceiveCoilName", tags["ImaCoilString"][1], "Rx coil name.")

\* lines 217-218: InversionTime only when the tag has items
SetInversionTime(obj, tags) ==
    IF Len(tags["InversionTime"]) > 0
    THEN set_standard_def(obj, "InversionTime", tags["InversionTime"][1])
    ELSE obj

\* extractDicomMetadata(dcmdata); now is what datetime.now() returns
extractDicomMetadata(dcmdata, now) ==
    LET tags == dcmdata.tags
        dcm == dcmdata.dcm
        e1 == FirstErr(tags, << <<"ImagingFrequency", 1>>, <<"ImagedNucleus", 1>>,
                                <<"ReceivingCoil", 0>> >>)
        e2 == IF Len(tags["ReceivingCoil"]) > 0 THEN ""
              ELSE ErrOf(tags, "ImaCoilString", 1)
        e3 == FirstErr(tags, << <<"SequenceName", 1>>, <<"EchoTime", 1>>,
                                <<"InversionTime", 0>>, <<"FlipAngle", 1>>,
                                <<"RepetitionTime", 1>> >>)
        o1 == SetAll(hdr_ext(tags["ImagingFrequency"][1], tags["ImagedNucleus"][1]),
                  << <<"Manufacturer", dcm.Manufacturer>>,
                     <<"ManufacturersModelName", dcm.ManufacturerModelName>>,
                     <<"DeviceSerialNumber", dcm.DeviceSerialNumber>>,
                     <<"SoftwareVersions", dcm.SoftwareVersions>>,
                     <<"InstitutionName", dcm.InstitutionName>>,
                     <<"InstitutionAddress", dcm.InstitutionAddress>> >>)
        o2 == SetReceiveCoilName(o1, tags)
        o3 == SetAll(o2,
                  << <<"SequenceName", tags["SequenceName"][1]>>,
                     <<"ProtocolName", dcm.ProtocolName>> >>)
        o4 == set_user_def(o3, "PulseSequenceFile", tags["SequenceName"][1],
                           "Sequence binary path.")
        o5 == SetAll(o4,
                  << <<"PatientPosition", dcm.PatientPosition>>,
                     <<"PatientName", dcm.PatientName.family_name>>,
                     <<"PatientWeight", dcm.PatientWeight>>,
                     <<"PatientDoB", dcm.PatientBirthDate>>,
                     <<"PatientSex", dcm.PatientSex>>,
                     <<"EchoTime", Scale(tags["EchoTime"][1], -3)>> >>)
        o6 == SetInversionTime(o5, tags)
        o7 == SetAll(o6,
                  << <<"ExcitationFlipAngle", tags["FlipAngle"][1]>>,
                     <<"RepetitionTime", Scale(tags["RepetitionTime"][1], -3)>>,
                     <<"ConversionMethod", "spec2nii">>,
                     <<"ConversionTime", now>> >>)
    IN  IF e1 # "" THEN Raise(e1)
        ELSE IF e2 # "" THEN Raise(e2)
        ELSE IF e3 # "" THEN Raise(e3)
        ELSE Ok(o7)

(***************************************************************************)
(* process_siemens_svs, process_siemens_csi                                *)
(***************************************************************************)
\* lines 128-131 / 159-162: dwell time, metadata and the returned tuple
Finish(image, now, data, orientation) ==
    LET e == ErrOf(image.tags, "RealDwellTime", 1)
        meta == extractDicomMetadata(image, now)
    IN  IF e # "" THEN Raise(e)
        ELSE IF ~meta.ok THEN meta
        ELSE Ok([data |-> data, orientation |-> orientation,
                 dwelltime |-> Scale(image.tags["RealDwellTime"][1], -9),
                 meta |-> meta.val])

\* process_siemens_svs(img)
process_siemens_svs(image, now) ==
    LET c == specDataCmplx(frombuffer(image.value))
        o == Orientation(image.tags, "VoiPosition",
                 << <<"VoiPhaseFoV", 1>>, <<"VoiReadoutFoV", 1>>, <<"VoiThickness", 1>> >>)
    IN  IF ~c.ok THEN c
        ELSE IF ~o.ok THEN o
        ELSE Finish(image, now, c.val, o.val)

\* lines 143-144: reshape to storage order, then reverse the spatial axes
ReshapeCsi(a, slices, rows, cols, spectral_points) ==
    LET r == reshape(a, <<slices, rows, cols, spectral_points>>)
    IN  IF ~r.ok THEN r ELSE Ok(moveaxis(r.val))

\* process_siemens_csi(img)
process_siemens_csi(image, now) ==
    LET c == specDataCmplx(frombuffer(image.value))
        e == FirstErr(image.tags, << <<"Rows", 1>>, <<"Columns", 1>>,
                                     <<"NumberOfFrames", 1>>, <<"DataPointColumns", 1>> >>)
        d == ReshapeCsi(c.val, image.tags["NumberOfFrames"][1], image.tags["Rows"][1],
                        image.tags["Columns"][1], image.tags["DataPointColumns"][1])
        o == Orientation(image.tags, "ImagePositionPatient",
                 << <<"PixelSpacing", 1>>, <<"PixelSpacing", 2>>, <<"SliceThickness", 1>> >>)
    IN  IF ~c.ok THEN c
        ELSE IF e # "" THEN Raise(e)
        ELSE IF ~d.ok THEN d
        ELSE IF ~o.ok THEN o
        ELSE Finish(image, now, d.val, o.val)

\* lines 38-49: one file of multi_file_dicom's loop, from the wrapper to
\* the four values appended to the lists
ConvertFile(image, now) ==
    LET mrs_type == svs_or_CSI(image)
        s == process_siemens_svs(image, now)
        newshape == <<1, 1, 1>> \o s.val.data.shape
        rs == reshape(s.val.data, newshape)
    IN  IF ~image.readable THEN Raise("InvalidDicomError")
        ELSE IF ~mrs_type.ok THEN mrs_type
        ELSE IF mrs_type.val = "SVS"
        THEN IF ~s.ok THEN s
             ELSE Ok([s.val EXCEPT !.data = rs.val])
        ELSE process_siemens_csi(image, now)

(***************************************************************************)
(* multi_file_dicom                                                        *)
(***************************************************************************)
\* slip: only the first two entries compared
all_equalFirstTwo(lst) == Len(lst) < 2 \/ lst[1] = lst[2]

\* all_equal(lst): lst[:-1] == lst[1:]
all_equal(lst) == SubSeq(lst, 1, Len(lst) - 1) = SubSeq(lst, 2, Len(lst))

\* slip: f'{i}', no padding
FormatPlain(i) == ToString(i)

\* f'{i:03}'
Format03(i) ==
    IF i < 10 THEN "00" \o ToString(i)
    ELSE IF i < 100 THEN "0" \o ToString(i)
    ELSE ToString(i)

\* nifti_mrs.NIfTI_MRS(data, affine, dwelltime, meta)
NIfTI_MRS(data, affine, dwelltime, meta) ==
    [data |-> data, affine |-> affine, dwelltime |-> dwelltime, meta |-> meta]

\* slip: the stem read from ProtocolName
MainStrProtocolName(image) ==
    IF Truthy(fname_out) THEN fname_out ELSE image.dcm.ProtocolName

\* lines 56-60: the name stem, read while the first file is converted
MainStr(image) ==
    IF Truthy(fname_out) THEN fname_out ELSE image.dcm.SeriesDescription

\* lines 68-70
Combine ==
    /\ all_equal([i \in 1..Len(data_list) |-> data_list[i].shape])
    /\ all_equal([i \in 1..Len(orientation_list) |-> orientation_list[i].Q44])
    /\ all_equal(dwelltime_list)

\* lines 34-60, one iteration that completes
LoopBody ==
    /\ pc = "loop"
    /\ idx < Len(files_in)
    /\ LET image == fs[files_in[idx + 1]]
           r == ConvertFile(image, clock)
       IN  /\ r.ok
           /\ data_list' = Append(data_list, r.val.data)
           /\ orientation_list' = Append(orientation_list, r.val.orientation)
           /\ dwelltime_list' = Append(dwelltime_list, r.val.dwelltime)
           /\ meta_list' = Append(meta_list, r.val.meta)
           /\ mainStr' = IF idx = 0 THEN MainStr(image) ELSE mainStr
    /\ idx' = idx + 1
    /\ clock' = clock + 1
    /\ UNCHANGED <<files_in, fs, fname_out, tag, pc, combine, nifti_mrs_out,
                   fnames_out, img, called, ret>>

\* slip: a file that cannot be converted is skipped and the loop goes on
LoopSkip ==
    /\ pc = "loop"
    /\ idx < Len(files_in)
    /\ ~ConvertFile(fs[files_in[idx + 1]], clock).ok
    /\ idx' = idx + 1
    /\ UNCHANGED <<files_in, fs, fname_out, tag, pc, data_list, orientation_list,
                   dwelltime_list, meta_list, mainStr, combine, nifti_mrs_out,
                   fnames_out, clock, img, called, ret>>

\* lines 34-60, one iteration that raises: the exception leaves
\* multi_file_dicom, nothing is returned
LoopRaise ==
    /\ pc = "loop"
    /\ idx < Len(files_in)
    /\ ~ConvertFile(fs[files_in[idx + 1]], clock).ok
    /\ pc' = "raised"
    /\ UNCHANGED <<files_in, fs, fname_out, tag, idx, data_list, orientation_list,
                   dwelltime_list, meta_list, mainStr, combine, nifti_mrs_out,
                   fnames_out, clock, img, called, ret>>

\* lines 62-72: the loop is over, decide
Decide ==
    /\ pc = "loop"
    /\ idx = Len(files_in)
    /\ combine' = Combine
    /\ nifti_mrs_out' = <<>>
    /\ fnames_out' = <<>>
    /\ pc' = "emit"
    /\ UNCHANGED <<files_in, fs, fname_out, tag, idx, data_list, orientation_list,
                   dwelltime_list, meta_list, mainStr, clock, img, called, ret>>

\* lines 82-90: the first file's metadata, as the combined output carries it
MetaUsed ==
    LET m == set_standard_def(meta_list[1], "OriginalFile", files_in)
    IN  IF Truthy(tag) THEN set_dim_info(m, 0, tag) ELSE m

\* lines 73-93 and 105
EmitCombined ==
    /\ pc = "emit"
    /\ combine
    /\ Len(dwelltime_list) > 0
    /\ fnames_out' = Append(fnames_out, mainStr)
    /\ nifti_mrs_out' = Append(nifti_mrs_out,
           NIfTI_MRS(stack(data_list), orientation_list[1].Q44,
                     dwelltime_list[1], MetaUsed))
    /\ meta_list' = [meta_list EXCEPT ![1] = MetaUsed]
    /\ pc' = "done"
    /\ UNCHANGED <<files_in, fs, fname_out, tag, idx, data_list, orientation_list,
                   dwelltime_list, mainStr, combine, clock, img, called, ret>>

\* line 78 with no file at all: dwelltime_list[0] raises IndexError
EmitNothing ==
    /\ pc = "emit"
    /\ combine
    /\ Len(dwelltime_list) = 0
    /\ pc' = "raised"
    /\ UNCHANGED <<files_in, fs, fname_out, tag, idx, data_list, orientation_list,
                   dwelltime_list, meta_list, mainStr, combine, nifti_mrs_out,
                   fnames_out, clock, img, called, ret>>

\* line 101: file i's metadata with its own provenance
MetaOwn(i) == set_standard_def(meta_list[i], "OriginalFile", <<files_in[i]>>)

\* line 102
NameOf(i) == mainStr \o "_" \o Format03(i)

\* lines 94-105
EmitSeparate ==
    /\ pc = "emit"
    /\ ~combine
    /\ fnames_out' = [i \in 1..Len(data_list) |-> NameOf(i - 1)]
    /\ nifti_mrs_out' = [i \in 1..Len(data_list) |->
           NIfTI_MRS(data_list[i], orientation_list[i].Q44, dwelltime_list[i],
                     MetaOwn(i))]
    /\ meta_list' = [i \in 1..Len(meta_list) |-> MetaOwn(i)]
    /\ pc' = "done"
    /\ UNCHANGED <<files_in, fs, fname_out, tag, idx, data_list, orientation_list,
                   dwelltime_list, mainStr, combine, clock, img, called, ret>>

(***************************************************************************)
(* Single calls of the functions on one wrapper                            *)
(***************************************************************************)
Call(f, r) ==
    /\ pc = "call"
    /\ called = "none"
    /\ called' = f
    /\ ret' = r
    /\ UNCHANGED <<files_in, fs, fname_out, tag, idx, pc, data_list,
                   orientation_list, dwelltime_list, meta_list, mainStr, combine,
                   nifti_mrs_out, fnames_out, clock, img>>

CallSvsOrCSI == Call("svs_or_CSI", svs_or_CSI(img))

\* multi_file_dicom calls it on the wrappers svs_or_CSI finds single-voxel
CallProcessSvs ==
    /\ svs_or_CSI(img) = Ok("SVS")
    /\ Call("process_siemens_svs", process_siemens_svs(img, clock))

\* multi_file_dicom calls it on the wrappers svs_or_CSI finds multi-voxel
CallProcessCsi ==
    /\ svs_or_CSI(img) = Ok("CSI")
    /\ Call("process_siemens_csi", process_siemens_csi(img, clock))

CallExtractDicomMetadata ==
    Call("extractDicomMetadata", extractDicomMetadata(img, clock))

\* lines 38-49 on one file
CallConvertFile == Call("ConvertFile", ConvertFile(img, clock))

(***************************************************************************)
(* Inputs                                                                  *)
(***************************************************************************)
BaseTags ==
    [Rows |-> <<1>>, Columns |-> <<1>>, NumberOfFrames |-> <<1>>,
     DataPointColumns |-> <<2>>,
     ImageOrientationPatient |-> <<1, 0, 0, 0, 1, 0>>,
     VoiPosition |-> <<3, -4, 5>>,
     VoiPhaseFoV |-> <<20>>, VoiReadoutFoV |-> <<25>>, VoiThickness |-> <<30>>,
     ImagePositionPatient |-> <<-40, -50, 6>>,
     PixelSpacing |-> <<10, 12>>, SliceThickness |-> <<15>>,
     RealDwellTime |-> <<250000>>,
     ImagingFrequency |-> <<123>>, ImagedNucleus |-> <<"1H">>,
     ReceivingCoil |-> <<"Head_32">>, ImaCoilString |-> <<"HE1-4">>,
     SequenceName |-> <<"svs_se">>,
     EchoTime |-> <<30>>, InversionTime |-> <<>>, FlipAngle |-> <<90>>,
     RepetitionTime |-> <<2000>>]

BaseDcm ==
    [SeriesDescription |-> "press_te30", ProtocolName |-> "press_te30",
     Manufacturer |-> "SIEMENS", ManufacturerModelName |-> "Prisma",
     DeviceSerialNumber |-> "66024", SoftwareVersions |-> "syngo MR E11",
     InstitutionName |-> "FMRIB", InstitutionAddress |-> "Oxford",
     PatientPosition |-> "HFS", PatientName |-> [family_name |-> "Phantom"],
     PatientWeight |-> 70, PatientBirthDate |-> "19700101", PatientSex |-> "O"]

\* two families of sample buffers of n floats: a ramp, and values of both
\* signs that are not monotone
Buffer(n, pattern) ==
    [i \in 1..n |-> IF pattern = 1 THEN i ELSE ((i * i) % 7) - 3]

BaseImg ==
    [readable |-> TRUE, tags |-> BaseTags, dcm |-> BaseDcm, value |-> Buffer(4, 1)]

Without(tags, t) == [k \in (DOMAIN tags) \ {t} |-> tags[k]]

WithGeometry(image, rows, cols, frames, points) ==
    [image EXCEPT !.tags.Rows = <<rows>>, !.tags.Columns = <<cols>>,
                  !.tags.NumberOfFrames = <<frames>>,
                  !.tags.DataPointColumns = <<points>>]

\* the files multi_file_dicom is run on
Files ==
    { BaseImg,
      [BaseImg EXCEPT !.value = Buffer(4, 2)],
      [BaseImg EXCEPT !.value = Buffer(6, 1)],
      [BaseImg EXCEPT !.tags.RealDwellTime = <<500000>>],
      [BaseImg EXCEPT !.tags.VoiPosition = <<3, -4, 9>>],
      [BaseImg EXCEPT !.dcm.SeriesDescription = "press_te30_repeat"],
      WithGeometry(BaseImg, 2, 1, 1, 1),
      WithGeometry(BaseImg, 2, 1, 1, 2),
      [BaseImg EXCEPT !.tags = Without(BaseTags, "Rows")],
      [BaseImg EXCEPT !.readable = FALSE] }

\* the paths of a batch of n files
FileNames(n) == [i \in 1..n |-> "f" \o ToString(i) \o ".dcm"]

\* buffer lengths tried with a geometry: the short ones, and those around
\* the length the geometry asks for
BufLens(rows, cols, frames, points) ==
    LET want == 2 * frames * rows * cols * points
    IN  (0..MaxBufLen) \cup {n \in {want - 1, want, want + 1} : n >= 0}

\* wrappers that differ in geometry and sample buffer
DataImgs ==
    UNION { { [WithGeometry(BaseImg, g[1], g[2], g[3], g[4])
                  EXCEPT !.value = Buffer(n, pattern)] :
                n \in BufLens(g[1], g[2], g[3], g[4]), pattern \in 1..2 } :
            g \in (0..MaxDim) \X (0..MaxDim) \X (0..MaxDim) \X (1..MaxDim) }

\* wrappers that differ in the tags the metadata is read from
MetaImgs ==
    { [BaseImg EXCEPT !.tags.ReceivingCoil = c1, !.tags.ImaCoilString = c2,
                      !.tags.InversionTime = ti] :
        c1 \in {<<>>, <<"Head_32">>, <<"Body", "Spine">>},
        c2 \in {<<>>, <<"HE1-4">>},
        ti \in {<<>>, <<900>>} }
    \cup
    { [BaseImg EXCEPT !.tags = Without(BaseTags, t)] :
        t \in {"Rows", "ReceivingCoil", "ImaCoilString", "RealDwellTime",
               "ImageOrientationPatient"} }

(***************************************************************************)
(* Specifications                                                          *)
(***************************************************************************)
\* multi_file_dicom(files_in, fname_out, tag, verbose) is entered
Init ==
    /\ \E n \in 0..MaxFiles : files_in = FileNames(n)
    /\ fs \in [{files_in[i] : i \in 1..Len(files_in)} -> Files]
    /\ fname_out \in {"", "out"}
    /\ tag \in {"", "DIM_DYN"}
    /\ idx = 0
    /\ pc = "loop"
    /\ data_list = <<>>
    /\ orientation_list = <<>>
    /\ dwelltime_list = <<>>
    /\ meta_list = <<>>
    /\ mainStr = ""
    /\ combine = FALSE
    /\ nifti_mrs_out = <<>>
    /\ fnames_out = <<>>
    /\ clock = 0
    /\ img = BaseImg
    /\ called = "none"
    /\ ret = Raise("not called")

Next ==
    \/ LoopBody
    \/ LoopRaise
    \/ Decide
    \/ EmitCombined
    \/ EmitNothing
    \/ EmitSeparate

Spec == Init /\ [][Next]_vars

\* one wrapper, one call
InitFn ==
    /\ img \in DataImgs \cup MetaImgs
    /\ called = "none"
    /\ ret = Raise("not called")
    /\ pc = "call"
    /\ files_in = <<>>
    /\ fs = <<>>
    /\ fname_out = ""
    /\ tag = ""
    /\ idx = 0
    /\ data_list = <<>>
    /\ orientation_list = <<>>
    /\ dwelltime_list = <<>>
    /\ meta_list = <<>>
    /\ mainStr = ""
    /\ combine = FALSE
    /\ nifti_mrs_out = <<>>
    /\ fnames_out = <<>>
    /\ clock = 0

NextFn ==
    \/ CallSvsOrCSI
    \/ CallProcessSvs
    \/ CallProcessCsi
    \/ CallExtractDicomMetadata
    \/ CallConvertFile

SpecFn == InitFn /\ [][NextFn]_vars

(***************************************************************************)
(* Properties                                                              *)
(***************************************************************************)
NFiles == Len(files_in)

\* what converting file i of the batch gives (datetime.now() ticks once per
\* converted file)
Converted(i) == ConvertFile(fs[files_in[i]], i - 1)

\* two 4x4 matrices agree in every element
SameMatrix(A, B) == \A r \in 1..4 : \A c \in 1..4 : A[r][c] = B[r][c]

\* m is the metadata object base with the OriginalFile field added
MetaOf(m, base, files) ==
    /\ m.SpectrometerFrequency = base.SpectrometerFrequency
    /\ m.ResonantNucleus = base.ResonantNucleus
    /\ m.user = base.user
    /\ DOMAIN m.standard = (DOMAIN base.standard) \cup {"OriginalFile"}
    /\ \A k \in DOMAIN base.standard : m.standard[k] = base.standard[k]
    /\ m.standard["OriginalFile"] = files

\* the combine path was taken: one output, the data with the extra axis
CombinedEmitted ==
    /\ Len(nifti_mrs_out) = 1
    /\ Len(fnames_out) = 1
    /\ Len(nifti_mrs_out[1].data.shape) = 5

\* the non-combine path was taken: one 4-D output per file
SeparateEmitted ==
    /\ Len(nifti_mrs_out) = NFiles
    /\ Len(fnames_out) = NFiles
    /\ \A i \in 1..NFiles : Len(nifti_mrs_out[i].data.shape) = 4

\* C1: for a batch of N >= 1 converted files the combine path is taken iff
\* every pair of files (adjacent or not) has the same data shape, the same
\* orientation matrix element by element and the same dwell time; otherwise
\* the non-combine path is taken.
C1_CombineIffAllEqual ==
    (pc \in {"emit", "done"} /\ NFiles >= 1) =>
        LET allSame ==
                \A i \in 1..NFiles : \A j \in 1..NFiles :
                    /\ data_list[i].shape = data_list[j].shape
                    /\ SameMatrix(orientation_list[i].Q44, orientation_list[j].Q44)
                    /\ dwelltime_list[i] = dwelltime_list[j]
        IN  /\ combine <=> allSame
            /\ pc = "done" => /\ allSame => CombinedEmitted
                              /\ ~allSame => SeparateEmitted

\* C1 witness: three files, the first two alike, only the third's dwell time
\* differs, and the files were not combined
C1_Witness ==
    /\ pc = "done"
    /\ NFiles = 3
    /\ ~combine
    /\ \A i \in 1..3 : data_list[i].shape = data_list[1].shape
    /\ \A i \in 1..3 : orientation_list[i] = orientation_list[1]
    /\ dwelltime_list[1] = dwelltime_list[2]
    /\ dwelltime_list[3] # dwelltime_list[1]

\* C2: combinable files give exactly one output: the data of file j is
\* element j of a new trailing axis of length N, orientation, dwell time
\* and metadata are the first file's, and OriginalFile lists all N paths in
\* input order.
C2_CombinedOutput ==
    (pc = "done" /\ combine) =>
        /\ Len(nifti_mrs_out) = 1
        /\ Len(fnames_out) = 1
        /\ LET out == nifti_mrs_out[1]
               first == Converted(1).val
           IN  /\ out.data.shape = first.data.shape \o <<NFiles>>
               /\ Len(out.data.flat) = NFiles * Len(first.data.flat)
               /\ \A j \in 1..NFiles :
                    LET dj == Converted(j).val.data
                    IN  \A q \in 0..(Len(dj.flat) - 1) :
                            At(out.data, Unravel(q, dj.shape) \o <<j - 1>>)
                                = dj.flat[q + 1]
               /\ SameMatrix(out.affine, first.orientation.Q44)
               /\ out.dwelltime = first.dwelltime
               /\ MetaOf(out.meta, first.meta, files_in)

\* C2 witness: three files were combined and their data are not all alike
C2_Witness ==
    /\ pc = "done"
    /\ combine
    /\ NFiles = 3
    /\ data_list[1] # data_list[2]
    /\ data_list[2] # data_list[3]

Digit(d) == <<"0", "1", "2", "3", "4", "5", "6", "7", "8", "9">>[d + 1]

\* i written with three decimal digits
ThreeDigits(i) == Digit((i \div 100) % 10) \o Digit((i \div 10) % 10) \o Digit(i % 10)

\* C3: files that are not combinable give N outputs in input order; output
\* i has file i's data, orientation, dwell time and metadata, OriginalFile
\* holds only file i's path, the name is the stem, "_" and i in three
\* digits, and the names are pairwise distinct.
C3_SeparateOutputs ==
    (pc = "done" /\ ~combine) =>
        /\ Len(nifti_mrs_out) = NFiles
        /\ Len(fnames_out) = NFiles
        /\ \A i \in 1..NFiles :
             LET out == nifti_mrs_out[i]
                 own == Converted(i).val
             IN  /\ out.data = own.data
                 /\ SameMatrix(out.affine, own.orientation.Q44)
                 /\ out.dwelltime = own.dwelltime
                 /\ MetaOf(out.meta, own.meta, <<files_in[i]>>)
                 /\ fnames_out[i] = mainStr \o "_" \o ThreeDigits(i - 1)
        /\ \A i \in 1..NFiles : \A j \in 1..NFiles :
             i # j => fnames_out[i] # fnames_out[j]

\* C3 witness: three files were written one by one
C3_Witness ==
    /\ pc = "done"
    /\ ~combine
    /\ NFiles = 3
    /\ Len(nifti_mrs_out) = 3

\* the names multi_file_dicom returns when the stem is stem
NamesWithStem(stem) ==
    IF combine THEN fnames_out = <<stem>>
    ELSE /\ Len(fnames_out) = NFiles
         /\ \A i \in 1..NFiles : fnames_out[i] = stem \o "_" \o ThreeDigits(i - 1)

\* C4 as stated: the stem is the override when one is given and otherwise
\* the first file's protocol name.
C4_StemFromProtocolName ==
    pc = "done" =>
        NamesWithStem(IF fname_out # "" THEN fname_out
                      ELSE fs[files_in[1]].dcm.ProtocolName)

\* C4 amended: the stem is the override when a non-empty one is given and
\* otherwise the first file's SeriesDescription; no other file and no other
\* field of the first file enters it.
C4_StemFromSeriesDescription ==
    pc = "done" =>
        NamesWithStem(IF fname_out # "" THEN fname_out
                      ELSE fs[files_in[1]].dcm.SeriesDescription)

\* C4 witness: no override, the first file's series description differs
\* from its protocol name and from the second file's series description
C4_Witness ==
    /\ pc = "done"
    /\ fname_out = ""
    /\ NFiles >= 2
    /\ fs[files_in[1]].dcm.SeriesDescription # fs[files_in[1]].dcm.ProtocolName
    /\ fs[files_in[1]].dcm.SeriesDescription # fs[files_in[2]].dcm.SeriesDescription

\* C5: when reading, classifying or extracting any file of the batch fails,
\* multi_file_dicom never decides, never returns and emits no output, also
\* not for the files converted before the failing one.
C5_FailFast ==
    (\E i \in 1..NFiles : ~ConvertFile(fs[files_in[i]], 0).ok) =>
        /\ pc \in {"loop", "raised"}
        /\ nifti_mrs_out = <<>>
        /\ fnames_out = <<>>

\* C5 witness: the third file failed after two files were converted
C5_Witness ==
    /\ pc = "raised"
    /\ idx = 2
    /\ Len(data_list) = 2
    /\ nifti_mrs_out = <<>>

\* C6: svs_or_CSI answers CSI iff rows * columns * frames > 1 and SVS
\* otherwise; with every count >= 1 it answers SVS iff all three are 1.
C6_ClassifierRule ==
    (called = "svs_or_CSI" /\ ret.ok) =>
        LET rows == img.tags["Rows"][1]
            cols == img.tags["Columns"][1]
            frames == img.tags["NumberOfFrames"][1]
        IN  /\ ret.val \in {"CSI", "SVS"}
            /\ ret.val = "CSI" <=> rows * cols * frames > 1
            /\ (rows >= 1 /\ cols >= 1 /\ frames >= 1) =>
                   (ret.val = "SVS" <=> (rows = 1 /\ cols = 1 /\ frames = 1))

\* C6 witness: one row, one column, two frames is multi-voxel
C6_Witness ==
    /\ called = "svs_or_CSI"
    /\ ret = Ok("CSI")
    /\ img.tags["Rows"] = <<1>>
    /\ img.tags["Columns"] = <<1>>
    /\ img.tags["NumberOfFrames"] = <<2>>

\* the sample count the geometry tags ask for
WantedLen(image) ==
    2 * image.tags["NumberOfFrames"][1] * image.tags["Rows"][1]
      * image.tags["Columns"][1] * image.tags["DataPointColumns"][1]

\* C7 as stated: a buffer with an odd number of floats makes the extraction
\* fail on both paths, and so does, on the multi-voxel path, a buffer whose
\* length is not 2 * slices * rows * cols * spectral points.
C7_BadLengthFails ==
    /\ (called = "process_siemens_svs" /\ Len(img.value) % 2 = 1) => ~ret.ok
    /\ (called = "process_siemens_csi"
            /\ (Len(img.value) % 2 = 1 \/ Len(img.value) # WantedLen(img)))
         => ~ret.ok

\* C8: the multi-voxel array has shape (cols, rows, slices, points) and
\* holds at (c, r, s, p) the decoded sample at flat position
\* ((s * rows + r) * cols + c) * points + p.
C8_CsiLayout ==
    (called = "process_siemens_csi" /\ ret.ok) =>
        LET rows == img.tags["Rows"][1]
            cols == img.tags["Columns"][1]
            slices == img.tags["NumberOfFrames"][1]
            points == img.tags["DataPointColumns"][1]
            decoded == specDataCmplx(frombuffer(img.value)).val.flat
            out == ret.val.data
        IN  /\ out.shape = <<cols, rows, slices, points>>
            /\ \A c \in 0..(cols - 1) : \A r \in 0..(rows - 1) :
               \A s \in 0..(slices - 1) : \A p \in 0..(points - 1) :
                   At(out, <<c, r, s, p>>)
                       = decoded[((s * rows + r) * cols + c) * points + p + 1]

\* C8 witness: a grid with two rows, two columns, two slices and two points
\* of pairwise different samples was laid out
C8_Witness ==
    /\ called = "process_siemens_csi"
    /\ ret.ok
    /\ img.tags["Rows"] = <<2>>
    /\ img.tags["Columns"] = <<2>>
    /\ img.tags["NumberOfFrames"] = <<2>>
    /\ img.tags["DataPointColumns"] = <<2>>
    /\ img.value = Buffer(32, 1)

\* C9: on the single-voxel path a buffer [r0, i0, r1, i1, ...] of 2N floats
\* becomes an array of shape (1, 1, 1, N) whose sample k is r_k - i * i_k,
\* in order, none dropped and none repeated; the decoding itself does not
\* fail.
C9_SvsDecode ==
    (called = "ConvertFile" /\ img.readable /\ svs_or_CSI(img) = Ok("SVS")
        /\ Len(img.value) % 2 = 0) =>
        LET n == Len(img.value) \div 2
        IN  IF ret.ok
            THEN /\ ret.val.data.shape = <<1, 1, 1, n>>
                 /\ Len(ret.val.data.flat) = n
                 /\ \A k \in 0..(n - 1) :
                      At(ret.val.data, <<0, 0, 0, k>>)
                          = [re |-> img.value[2 * k + 1], im |-> 0 - img.value[2 * k + 2]]
            ELSE ret.err # "ValueError"

\* C9 witness: three samples of both signs were decoded
C9_Witness ==
    /\ called = "ConvertFile"
    /\ ret.ok
    /\ svs_or_CSI(img) = Ok("SVS")
    /\ img.value = Buffer(6, 2)

\* the ReceiveCoilName triples of a metadata object
CoilTriples(obj) == {k \in 1..Len(obj.user) : obj.user[k].key = "ReceiveCoilName"}

\* C10: the metadata extractDicomMetadata returns has ReceiveCoilName set
\* exactly once: to the first ReceivingCoil item when that tag has items,
\* to the ImaCoilString value when it has none.
C10_ReceiveCoilName ==
    (called = "extractDicomMetadata" /\ ret.ok) =>
        LET primary == img.tags["ReceivingCoil"]
            secondary == img.tags["ImaCoilString"]
            set == CoilTriples(ret.val)
        IN  /\ Cardinality(set) = 1
            /\ \A k \in set :
                 ret.val.user[k].value =
                     IF Len(primary) > 0 THEN primary[1] ELSE secondary[1]

\* C10 witness: ReceivingCoil had no item and the metadata was extracted
C10_Witness ==
    /\ called = "extractDicomMetadata"
    /\ ret.ok
    /\ img.tags["ReceivingCoil"] = <<>>
    /\ Cardinality(CoilTriples(ret.val)) = 1

====
